---- MODULE Spec2Model ----
(***************************************************************************)
(* The rule jsx-wrap-multilines (lib/rules/jsx-wrap-multilines.js): the    *)
(* seven handlers it registers, check, isParenthesised, isMultilines and   *)
(* isEnabled, run by the host over one file: a source text, its tokens and *)
(* its AST.  The host applies a reported fix to the text and lints again.  *)
(*                                                                         *)
(* Source text is a sequence of one-character strings.  Offsets are        *)
(* 0-based as in ESTree ranges: range <<s, e>> covers text[s+1 .. e].      *)
(***************************************************************************)
EXTENDS Integers, Sequences, FiniteSets, TLC

VARIABLES
    options,      \* context.options: <<>> when the rule has no options object, else <<object>>
    program,      \* the program of the file, as the structure its text is written from
    sourceCode,   \* context.getSourceCode(): [text, tokens, ast]
    pending,      \* traversal events the host has still to deliver, in order
    reports,      \* what context.report received in this lint pass
    trace,        \* history: per handled event, the handler, its node and the nodes it reported
    fixes,        \* number of fixes the host has applied
    fixed,        \* history: ranges (in the current text) of the nodes a fix has wrapped
    lastFix       \* history: the text before the last fix, and that fix

vars == <<options, program, sourceCode, pending, reports, trace, fixes, fixed, lastFix>>

\* Cap on the host's lint-fix-lint loop.
MaxFixes == 3
\* Largest number of pairs of parentheses directly around an operand.
MaxParens == 1

Null == [type |-> "Null"]

-----------------------------------------------------------------------------
(* Lexical analysis of the host: espree tokens of a text.                  *)

Letters == {"a", "b", "c", "e", "f", "n", "p", "r", "s", "t", "u", "v", "x"}
Blanks == {" ", "\n"}

RECURSIVE WordEnd(_, _)
\* Index of the last letter of the run of letters that starts at index i.
WordEnd(t, i) ==
    IF i < Len(t) /\ t[i + 1] \in Letters THEN WordEnd(t, i + 1) ELSE i

RECURSIVE StringEnd(_, _)
\* Index of the quote that closes the string literal whose body starts at index i.
StringEnd(t, i) ==
    IF i >= Len(t) \/ t[i] = "\"" THEN i ELSE StringEnd(t, i + 1)

RECURSIVE Concat(_)
\* The characters of a sequence joined into one string.
Concat(cs) ==
    IF cs = <<>> THEN "" ELSE Head(cs) \o Concat(Tail(cs))

Token(t, i, j) ==
    [value |-> Concat(SubSeq(t, i, j)), range |-> <<i - 1, j>>]

RECURSIVE Tokenize(_, _)
\* The tokens of text t from index i on: blanks separate tokens and are none.
Tokenize(t, i) ==
    IF i > Len(t) THEN <<>>
    ELSE IF t[i] \in Blanks THEN Tokenize(t, i + 1)
    ELSE LET j == IF t[i] \in Letters THEN WordEnd(t, i)
                  ELSE IF t[i] = "\"" THEN StringEnd(t, i + 1)
                  ELSE IF t[i] = "=" /\ i < Len(t) /\ t[i + 1] = ">" THEN i + 1
                  ELSE IF t[i] = "&" /\ i < Len(t) /\ t[i + 1] = "&" THEN i + 1
                  ELSE i
         IN  <<Token(t, i, j)>> \o Tokenize(t, j + 1)

RECURSIVE NewLines(_)
NewLines(t) ==
    IF t = <<>> THEN 0
    ELSE (IF Head(t) = "\n" THEN 1 ELSE 0) + NewLines(Tail(t))

-----------------------------------------------------------------------------
(* Programs and the AST the host's parser gives for their text.            *)
(* A program is a statement; Parse writes its text and builds the ESTree  *)
(* nodes with the range and loc the parser records.  Parentheses are text *)
(* only: the parser keeps no node for them.                                *)

Loc(l1, l2) == [start |-> [line |-> l1], end |-> [line |-> l2]]

Leaf(type, off, len, line) ==
    [type |-> type, range |-> <<off, off + len>>, loc |-> Loc(line, line)]

\* Expressions that bind tighter than && : the others (a conditional, an assignment, an
\* arrow function, a logical expression) are the right operand of && only in parentheses,
\* a&&c?E:E being (a&&c)?E:E and a&&x=E, a&&()=>E being no JavaScript.
Primary(e) == e.k \in {"Ident", "JSX", "Paren", "Call"}
AsOperand(e) == IF Primary(e) THEN e ELSE [k |-> "Paren", e |-> e]

RECURSIVE Parse(_, _, _)
Parse(s, off, line) ==
    CASE s.k = "Ident" ->
           [text |-> <<"a">>, node |-> Leaf("Identifier", off, 1, line)]
      [] s.k = "JSX" ->
           \* <b/>   <b p/>   <b p="s"/>   <b p={E}/>   with a line break before /> when multi
           LET val == IF s.attr = "expr" THEN Parse(s.val, off + 6, line)
                      ELSE [text |-> <<>>, node |-> Null]
               atext == CASE s.attr = "none" -> <<>>
                          [] s.attr = "bare" -> <<" ", "p">>
                          [] s.attr = "str" -> <<" ", "p", "=", "\"", "s", "\"">>
                          [] s.attr = "expr" -> <<" ", "p", "=", "{">> \o val.text \o <<"}">>
               aend == off + 2 + Len(atext)
               aline == line + NewLines(atext)
               value == CASE s.attr = "bare" -> Null
                          [] s.attr = "str" -> Leaf("Literal", off + 5, 3, line)
                          [] s.attr = "expr" ->
                               [type |-> "JSXExpressionContainer", range |-> <<off + 5, aend>>,
                                loc |-> Loc(line, aline), expression |-> val.node]
                          [] OTHER -> Null
               attrs == IF s.attr = "none" THEN <<>>
                        ELSE <<[type |-> "JSXAttribute", range |-> <<off + 3, aend>>,
                                loc |-> Loc(line, aline), value |-> value]>>
               t == <<"<", "b">> \o atext \o (IF s.multi THEN <<"\n">> ELSE <<>>) \o <<"/", ">">>
           IN  [text |-> t,
                node |-> [type |-> "JSXElement", range |-> <<off, off + Len(t)>>,
                          loc |-> Loc(line, line + NewLines(t)), attributes |-> attrs]]
      [] s.k = "Paren" ->
           LET e == Parse(s.e, off + 1, line)
           IN  [text |-> <<"(">> \o e.text \o <<")">>, node |-> e.node]
      [] s.k = "Cond" ->
           \* c?E:E
           LET c == Parse(s.cons, off + 2, line)
               a == Parse(s.alt, off + 3 + Len(c.text), line + NewLines(c.text))
               t == <<"c", "?">> \o c.text \o <<":">> \o a.text
           IN  [text |-> t,
                node |-> [type |-> "ConditionalExpression", range |-> <<off, off + Len(t)>>,
                          loc |-> Loc(line, line + NewLines(t)),
                          consequent |-> c.node, alternate |-> a.node]]
      [] s.k = "Logical" ->
           \* a&&E, E a primary expression
           LET r == Parse(AsOperand(s.e), off + 3, line)
               t == <<"a", "&", "&">> \o r.text
           IN  [text |-> t,
                node |-> [type |-> "LogicalExpression", range |-> <<off, off + Len(t)>>,
                          loc |-> Loc(line, line + NewLines(t)), right |-> r.node]]
      [] s.k = "Assign" ->
           \* x=E
           LET r == Parse(s.e, off + 2, line)
               t == <<"x", "=">> \o r.text
           IN  [text |-> t,
                node |-> [type |-> "AssignmentExpression", range |-> <<off, off + Len(t)>>,
                          loc |-> Loc(line, line + NewLines(t)), right |-> r.node]]
      [] s.k = "Call" ->
           \* f(E,a)
           LET e == Parse(s.e, off + 2, line)
               t == <<"f", "(">> \o e.text \o <<",", "a", ")">>
               l2 == line + NewLines(t)
           IN  [text |-> t,
                node |-> [type |-> "CallExpression", range |-> <<off, off + Len(t)>>,
                          loc |-> Loc(line, l2),
                          arguments |-> <<e.node, Leaf("Identifier", off + Len(t) - 2, 1, l2)>>]]
      [] s.k = "Arrow" ->
           \* ()=>E
           LET b == Parse(s.e, off + 4, line)
               t == <<"(", ")", "=", ">">> \o b.text
           IN  [text |-> t,
                node |-> [type |-> "ArrowFunctionExpression", range |-> <<off, off + Len(t)>>,
                          loc |-> Loc(line, line + NewLines(t)), body |-> b.node]]
      [] s.k = "ArrowBlock" ->
           \* ()=>{return E}
           LET r == Parse([k |-> "Return", e |-> s.e], off + 5, line)
               t == <<"(", ")", "=", ">", "{">> \o r.text \o <<"}">>
               l2 == line + NewLines(t)
           IN  [text |-> t,
                node |-> [type |-> "ArrowFunctionExpression", range |-> <<off, off + Len(t)>>,
                          loc |-> Loc(line, l2),
                          body |-> [type |-> "BlockStatement",
                                    range |-> <<off + 4, off + Len(t)>>,
                                    loc |-> Loc(line, l2), body |-> <<r.node>>]]]
      [] s.k = "Return" ->
           \* return E   or   return
           LET a == IF s.e = Null THEN [text |-> <<>>, node |-> Null]
                    ELSE Parse(s.e, off + 7, line)
               t == <<"r", "e", "t", "u", "r", "n">>
                    \o (IF s.e = Null THEN <<>> ELSE <<" ">> \o a.text)
           IN  [text |-> t,
                node |-> [type |-> "ReturnStatement", range |-> <<off, off + Len(t)>>,
                          loc |-> Loc(line, line + NewLines(t)), argument |-> a.node]]
      [] s.k = "Var" ->
           \* var x=E   or   var x
           LET i == IF s.e = Null THEN [text |-> <<>>, node |-> Null]
                    ELSE Parse(s.e, off + 6, line)
               t == <<"v", "a", "r", " ", "x">>
                    \o (IF s.e = Null THEN <<>> ELSE <<"=">> \o i.text)
               l2 == line + NewLines(t)
           IN  [text |-> t,
                node |-> [type |-> "VariableDeclaration", range |-> <<off, off + Len(t)>>,
                          loc |-> Loc(line, l2),
                          declarations |-> <<[type |-> "VariableDeclarator",
                                              range |-> <<off + 4, off + Len(t)>>,
                                              loc |-> Loc(line, l2), init |-> i.node]>>]]
      [] s.k = "Expr" ->
           \* the statement is the expression with the parentheses around it
           LET e == Parse(s.e, off, line)
           IN  [text |-> e.text,
                node |-> [type |-> "ExpressionStatement",
                          range |-> <<off, off + Len(e.text)>>,
                          loc |-> Loc(line, line + NewLines(e.text)),
                          expression |-> e.node]]

Lead(n) == [i \in 1..n |-> "\n"]

\* The SourceCode object of the file: lead blank lines, then the statement.
SourceCodeOf(p) ==
    LET r == Parse(p.stmt, p.lead, 1 + p.lead)
        t == Lead(p.lead) \o r.text
    IN  [text |-> t, tokens |-> Tokenize(t, 1), ast |-> r.node]

-----------------------------------------------------------------------------
(* Traversal of the host: the events this rule has a handler for, in the   *)
(* order of a depth-first walk (a node on entry, an arrow function on     *)
(* exit, after its body).                                                  *)

Children(n) ==
    CASE n.type = "VariableDeclaration" -> n.declarations
      [] n.type = "VariableDeclarator" -> <<n.init>>
      [] n.type = "ExpressionStatement" -> <<n.expression>>
      [] n.type = "ReturnStatement" -> <<n.argument>>
      [] n.type = "BlockStatement" -> n.body
      [] n.type = "ArrowFunctionExpression" -> <<n.body>>
      [] n.type = "AssignmentExpression" -> <<n.right>>
      [] n.type = "CallExpression" -> n.arguments
      [] n.type = "ConditionalExpression" -> <<n.consequent, n.alternate>>
      [] n.type = "LogicalExpression" -> <<n.right>>
      [] n.type = "JSXElement" -> n.attributes
      [] n.type = "JSXAttribute" -> <<n.value>>
      [] n.type = "JSXExpressionContainer" -> <<n.expression>>
      [] OTHER -> <<>>

OnEnter == {"VariableDeclarator", "AssignmentExpression", "ReturnStatement",
            "ConditionalExpression", "LogicalExpression", "JSXAttribute"}

RECURSIVE Events(_)
RECURSIVE EventsOfAll(_)
Events(n) ==
    IF n = Null THEN <<>>
    ELSE (IF n.type \in OnEnter THEN <<[handler |-> n.type, node |-> n]>> ELSE <<>>)
         \o EventsOfAll(Children(n))
         \o (IF n.type = "ArrowFunctionExpression"
             THEN <<[handler |-> "ArrowFunctionExpression:exit", node |-> n]>> ELSE <<>>)
EventsOfAll(ns) ==
    IF ns = <<>> THEN <<>> ELSE Events(Head(ns)) \o EventsOfAll(Tail(ns))

-----------------------------------------------------------------------------
(* The rule.                                                               *)

Contexts == {"declaration", "assignment", "return", "arrow", "condition", "logical", "prop"}

DEFAULTS ==
    [declaration |-> TRUE, assignment |-> TRUE, return |-> TRUE, arrow |-> TRUE,
     condition |-> FALSE, logical |-> FALSE, prop |-> FALSE]

\* EmptyObject is {}: a function with no entries.
EmptyObject == [c \in {} |-> FALSE]

\* has(object, key): the object has its own entry for key.
has(object, key) == key \in DOMAIN object

\* sourceCode.getTokenBefore(node): the last token that starts before the node, or Null.
getTokenBefore(node) ==
    LET before == {i \in DOMAIN sourceCode.tokens :
                      sourceCode.tokens[i].range[1] < node.range[1]}
    IN  IF before = {} THEN Null
        ELSE sourceCode.tokens[CHOOSE i \in before : \A j \in before : j <= i]

\* sourceCode.getTokenAfter(node): the first token that starts at or after the node's end, or Null.
getTokenAfter(node) ==
    LET after == {i \in DOMAIN sourceCode.tokens :
                     sourceCode.tokens[i].range[1] >= node.range[2]}
    IN  IF after = {} THEN Null
        ELSE sourceCode.tokens[CHOOSE i \in after : \A j \in after : i <= j]

\* sourceCode.getText(node)
getText(node) == SubSeq(sourceCode.text, node.range[1] + 1, node.range[2])

\* Mutant: the token before must end strictly before the node.
isParenthesised_Strict(node) ==
    LET previousToken == getTokenBefore(node)
        nextToken == getTokenAfter(node)
    IN  /\ previousToken # Null
        /\ nextToken # Null
        /\ previousToken.value = "(" /\ previousToken.range[2] < node.range[1]
        /\ nextToken.value = ")" /\ nextToken.range[1] >= node.range[2]

\* Mutant: one parenthesis, on either side, is taken for a pair.
isParenthesised_Either(node) ==
    LET previousToken == getTokenBefore(node)
        nextToken == getTokenAfter(node)
    IN  /\ previousToken # Null
        /\ nextToken # Null
        /\ \/ previousToken.value = "(" /\ previousToken.range[2] <= node.range[1]
           \/ nextToken.value = ")" /\ nextToken.range[1] >= node.range[2]

isParenthesised(node) ==
    LET previousToken == getTokenBefore(node)
        nextToken == getTokenAfter(node)
    IN  /\ previousToken # Null
        /\ nextToken # Null
        /\ previousToken.value = "(" /\ previousToken.range[2] <= node.range[1]
        /\ nextToken.value = ")" /\ nextToken.range[1] >= node.range[2]

\* Mutant: every node counts as multiline.
isMultilines_Always(node) == node.loc.start.line <= node.loc.end.line

isMultilines(node) == node.loc.start.line # node.loc.end.line

\* Mutant: the fix is written from the node's tokens, so the blanks between them are lost.
check_FixFromTokens(node) ==
    IF node = Null \/ node.type # "JSXElement" THEN <<>>
    ELSE IF ~isParenthesised(node) /\ isMultilines(node)
    THEN <<[node |-> node,
            message |-> "Missing parentheses around multilines JSX",
            fix |-> [range |-> node.range,
                     text |-> <<"(">> \o SelectSeq(getText(node), LAMBDA c : c \notin Blanks)
                                  \o <<")">>]]>>
    ELSE <<>>

\* check(node): the reports it makes, none or one.
check(node) ==
    IF node = Null \/ node.type # "JSXElement" THEN <<>>
    ELSE IF ~isParenthesised(node) /\ isMultilines(node)
    THEN <<[node |-> node,
            message |-> "Missing parentheses around multilines JSX",
            fix |-> [range |-> node.range,
                     text |-> <<"(">> \o getText(node) \o <<")">>]]>>
    ELSE <<>>

\* Mutant: a false entry of the options falls back to the default.
isEnabled_Falsy(type) ==
    LET userOptions == IF options # <<>> THEN options[1] ELSE EmptyObject
    IN  IF has(userOptions, type) /\ userOptions[type] THEN TRUE ELSE DEFAULTS[type]

isEnabled(type) ==
    LET userOptions == IF options # <<>> THEN options[1] ELSE EmptyObject
    IN  IF has(userOptions, type) THEN userOptions[type] ELSE DEFAULTS[type]

\* Mutant: the declarator handler takes the branches of a conditional whatever `condition` is.
OnVariableDeclarator_AlwaysBranches(node) ==
    IF ~isEnabled("declaration") THEN <<>>
    ELSE IF node.init # Null /\ node.init.type = "ConditionalExpression"
    THEN check(node.init.consequent) \o check(node.init.alternate)
    ELSE check(node.init)

\* Mutant: the declarator handler forgets the alternate of a conditional.
OnVariableDeclarator_NoAlternate(node) ==
    IF ~isEnabled("declaration") THEN <<>>
    ELSE IF ~isEnabled("condition") /\ node.init # Null
            /\ node.init.type = "ConditionalExpression"
    THEN check(node.init.consequent)
    ELSE check(node.init)

\* What each handler reports for its node.
OnVariableDeclarator(node) ==
    IF ~isEnabled("declaration") THEN <<>>
    ELSE IF ~isEnabled("condition") /\ node.init # Null
            /\ node.init.type = "ConditionalExpression"
    THEN check(node.init.consequent) \o check(node.init.alternate)
    ELSE check(node.init)

\* Mutant: the assignment handler takes the branches of a conditional whatever `condition` is.
OnAssignmentExpression_AlwaysBranches(node) ==
    IF ~isEnabled("assignment") THEN <<>>
    ELSE IF node.right.type = "ConditionalExpression"
    THEN check(node.right.consequent) \o check(node.right.alternate)
    ELSE check(node.right)

OnAssignmentExpression(node) ==
    IF ~isEnabled("assignment") THEN <<>>
    ELSE IF ~isEnabled("condition") /\ node.right.type = "ConditionalExpression"
    THEN check(node.right.consequent) \o check(node.right.alternate)
    ELSE check(node.right)

OnReturnStatement(node) ==
    IF isEnabled("return") THEN check(node.argument) ELSE <<>>

\* Mutant: the arrow handler asks for the `return` context.
OnArrowFunctionExpressionExit_ReturnSetting(node) ==
    LET arrowBody == node.body
    IN  IF isEnabled("return") /\ arrowBody.type # "BlockStatement"
        THEN check(arrowBody) ELSE <<>>

OnArrowFunctionExpressionExit(node) ==
    LET arrowBody == node.body
    IN  IF isEnabled("arrow") /\ arrowBody.type # "BlockStatement"
        THEN check(arrowBody) ELSE <<>>

OnConditionalExpression(node) ==
    IF isEnabled("condition")
    THEN check(node.consequent) \o check(node.alternate) ELSE <<>>

OnLogicalExpression(node) ==
    IF isEnabled("logical") THEN check(node.right) ELSE <<>>

\* Mutant: the attribute handler checks the container, not the expression in it.
OnJSXAttribute_Container(node) ==
    IF isEnabled("prop") /\ node.value # Null
       /\ node.value.type = "JSXExpressionContainer"
    THEN check(node.value) ELSE <<>>

OnJSXAttribute(node) ==
    IF isEnabled("prop") /\ node.value # Null
       /\ node.value.type = "JSXExpressionContainer"
    THEN check(node.value.expression) ELSE <<>>

Ranges(rs) == [i \in DOMAIN rs |-> rs[i].node.range]

\* The host delivers the next event to its handler, which runs to completion.
Deliver(handler, made) ==
    /\ reports' = reports \o made
    /\ trace' = Append(trace, [handler |-> handler, node |-> Head(pending).node,
                               reported |-> Ranges(made)])
    /\ pending' = Tail(pending)
    /\ UNCHANGED <<options, program, sourceCode, fixes, fixed, lastFix>>

NextEventIs(handler) == pending # <<>> /\ Head(pending).handler = handler

VariableDeclarator ==
    /\ NextEventIs("VariableDeclarator")
    /\ Deliver("VariableDeclarator", OnVariableDeclarator(Head(pending).node))

AssignmentExpression ==
    /\ NextEventIs("AssignmentExpression")
    /\ Deliver("AssignmentExpression", OnAssignmentExpression(Head(pending).node))

ReturnStatement ==
    /\ NextEventIs("ReturnStatement")
    /\ Deliver("ReturnStatement", OnReturnStatement(Head(pending).node))

ArrowFunctionExpressionExit ==
    /\ NextEventIs("ArrowFunctionExpression:exit")
    /\ Deliver("ArrowFunctionExpression:exit", OnArrowFunctionExpressionExit(Head(pending).node))

ConditionalExpression ==
    /\ NextEventIs("ConditionalExpression")
    /\ Deliver("ConditionalExpression", OnConditionalExpression(Head(pending).node))

LogicalExpression ==
    /\ NextEventIs("LogicalExpression")
    /\ Deliver("LogicalExpression", OnLogicalExpression(Head(pending).node))

JSXAttribute ==
    /\ NextEventIs("JSXAttribute")
    /\ Deliver("JSXAttribute", OnJSXAttribute(Head(pending).node))

-----------------------------------------------------------------------------
(* The host's fixer: it applies one reported fix to the text, parses the   *)
(* new text and starts a new lint pass.                                    *)

\* fixer.replaceText applied: the text with the characters of range replaced by new.
replaceText(text, range, new) ==
    SubSeq(text, 1, range[1]) \o new \o SubSeq(text, range[2] + 1, Len(text))

RECURSIVE WrapAt(_, _, _)
\* The program whose text has parentheses around the JSX element at range r:
\* program s, written from offset off, with that element wrapped.
WrapAt(s, off, r) ==
    CASE s = Null -> s
      [] s.k = "Ident" -> s
      [] s.k = "JSX" ->
           IF Parse(s, off, 1).node.range = r THEN [k |-> "Paren", e |-> s]
           ELSE IF s.attr = "expr" THEN [s EXCEPT !.val = WrapAt(@, off + 6, r)]
           ELSE s
      [] s.k = "Cond" ->
           [s EXCEPT !.cons = WrapAt(@, off + 2, r),
                     !.alt = WrapAt(@, off + 3 + Len(Parse(s.cons, off + 2, 1).text), r)]
      [] s.k = "Logical" ->
           [s EXCEPT !.e = WrapAt(AsOperand(@), off + 3, r)]
      [] OTHER ->
           LET at == CASE s.k = "Paren" -> off + 1
                       [] s.k = "Assign" -> off + 2
                       [] s.k = "Call" -> off + 2
                       [] s.k = "Arrow" -> off + 4
                       [] s.k = "ArrowBlock" -> off + 12
                       [] s.k = "Return" -> off + 7
                       [] s.k = "Var" -> off + 6
                       [] s.k = "Expr" -> off
           IN  [s EXCEPT !.e = WrapAt(@, at, r)]

\* Where a range of the old text lies in the text with the node at range r wrapped.
Shift(old, r) ==
    IF old[2] <= r[1] THEN old
    ELSE IF old[1] >= r[2] THEN <<old[1] + 2, old[2] + 2>>
    ELSE IF r[1] <= old[1] /\ old[2] <= r[2] THEN <<old[1] + 1, old[2] + 1>>
    ELSE <<old[1], old[2] + 2>>

ApplyFix ==
    /\ pending = <<>>
    /\ fixes < MaxFixes
    /\ \E i \in DOMAIN reports :
          LET fix == reports[i].fix
              newText == replaceText(sourceCode.text, fix.range, fix.text)
              newProgram == [program EXCEPT !.stmt = WrapAt(@, program.lead, fix.range)]
              newAst == SourceCodeOf(newProgram).ast
          IN  /\ program' = newProgram
              /\ sourceCode' = [text |-> newText, tokens |-> Tokenize(newText, 1),
                                ast |-> newAst]
              /\ pending' = Events(newAst)
              /\ fixed' = {Shift(old, fix.range) : old \in fixed}
                             \cup {<<fix.range[1] + 1, fix.range[2] + 1>>}
              /\ lastFix' = [text |-> sourceCode.text, node |-> reports[i].node.range]
    /\ reports' = <<>>
    /\ trace' = <<>>
    /\ fixes' = fixes + 1
    /\ UNCHANGED options

-----------------------------------------------------------------------------
(* The files and the options the rule is run on.                           *)

Ident == [k |-> "Ident"]
JSX(multi, attr, val) == [k |-> "JSX", multi |-> multi, attr |-> attr, val |-> val]
Single == JSX(FALSE, "none", Null)
Multi == JSX(TRUE, "none", Null)
Paren(e) == [k |-> "Paren", e |-> e]
Cond(c, a) == [k |-> "Cond", cons |-> c, alt |-> a]

RECURSIVE Parens(_, _)
\* e inside n pairs of parentheses.
Parens(e, n) == IF n = 0 THEN e ELSE Paren(Parens(e, n - 1))

\* Operands: an identifier, or an element on one line or more, bare or in parentheses.
Operands == {Ident} \cup {Parens(e, n) : e \in {Single, Multi}, n \in 0..MaxParens}

\* An expression around e: one of each construct the rule has a handler for, and
\* parentheses; as the right operand of && e is in parentheses unless it is primary.
Around(e) ==
    {Paren(e), [k |-> "Logical", e |-> AsOperand(e)], [k |-> "Assign", e |-> e],
     [k |-> "Arrow", e |-> e], [k |-> "ArrowBlock", e |-> e], JSX(FALSE, "expr", e)}

Conditionals ==
    {Cond(c, a) : c \in {Ident, Single, Multi, Paren(Multi)}, a \in {Single, Multi, Paren(Multi)}}

Inner ==
    Operands \cup Conditionals \cup {JSX(FALSE, "bare", Null), JSX(TRUE, "str", Null)}

Expressions ==
    Inner
    \cup UNION {Around(e) : e \in Inner}
    \cup UNION {Around(e) : e \in {[k |-> "Assign", e |-> Multi], [k |-> "Arrow", e |-> Multi]}}
    \cup {[k |-> "Call", e |-> e] : e \in Operands}

Statements ==
    {[k |-> kind, e |-> e] : kind \in {"Var", "Expr"}, e \in Expressions}
    \cup {[k |-> "Return", e |-> e] : e \in Inner}
    \cup {[k |-> "Var", e |-> Null], [k |-> "Return", e |-> Null]}

Programs == {[lead |-> 0, stmt |-> s] : s \in Statements}

\* One file per handler, and the conditional in a declaration and in an assignment.
CorePrograms ==
    {[lead |-> 1, stmt |-> s] :
        s \in {[k |-> "Var", e |-> Multi], [k |-> "Return", e |-> Multi],
               [k |-> "Var", e |-> Cond(Multi, Single)],
               [k |-> "Var", e |-> JSX(FALSE, "expr", [k |-> "Logical", e |-> Multi])]}
              \cup {[k |-> "Expr", e |-> e] : e \in Around(Multi) \cup Around(Cond(Single, Multi))}}

\* Options objects the schema accepts: any of the seven keys, each a boolean.
Objects == UNION {[keys -> BOOLEAN] : keys \in SUBSET Contexts}
\* Those that set every key.
FullObjects == [Contexts -> BOOLEAN]

Start(os, ps) ==
    /\ options \in {<<>>} \cup {<<o>> : o \in os}
    /\ program \in ps
    /\ sourceCode = SourceCodeOf(program)
    /\ pending = Events(sourceCode.ast)
    /\ reports = <<>>
    /\ trace = <<>>
    /\ fixes = 0
    /\ fixed = {}
    /\ lastFix = Null

Init == Start(FullObjects, Programs)

InitConfig == Start(Objects, CorePrograms)

Next ==
    \/ VariableDeclarator
    \/ AssignmentExpression
    \/ ReturnStatement
    \/ ArrowFunctionExpressionExit
    \/ ConditionalExpression
    \/ LogicalExpression
    \/ JSXAttribute
    \/ ApplyFix

Spec == Init /\ [][Next]_vars

SpecConfig == InitConfig /\ [][Next]_vars

\* The text is the text of the program the AST was built from.
TextIsProgramText ==
    /\ sourceCode.text = SourceCodeOf(program).text
    /\ sourceCode.tokens = Tokenize(sourceCode.text, 1)

-----------------------------------------------------------------------------
(* What the claims are stated in: the characters of the text around a     *)
(* node, the options as given, and the nodes of the AST.                   *)

RECURSIVE CharBefore(_, _)
\* The last character of text t at index i or before that is no blank, "" if none.
CharBefore(t, i) ==
    IF i < 1 THEN "" ELSE IF t[i] \in Blanks THEN CharBefore(t, i - 1) ELSE t[i]

RECURSIVE CharAfter(_, _)
\* The first character of text t at index i or after that is no blank, "" if none.
CharAfter(t, i) ==
    IF i > Len(t) THEN "" ELSE IF t[i] \in Blanks THEN CharAfter(t, i + 1) ELSE t[i]

OpensBefore(range) == CharBefore(sourceCode.text, range[1]) = "("
ClosesAfter(range) == CharAfter(sourceCode.text, range[2] + 1) = ")"
WrappedInText(range) == OpensBefore(range) /\ ClosesAfter(range)

SpansLines(range) == \E i \in (range[1] + 1)..range[2] : sourceCode.text[i] = "\n"

\* A node that is to be flagged: an element on several lines with no parentheses around it.
NeedsParens(n) ==
    /\ n # Null
    /\ n.type = "JSXElement"
    /\ SpansLines(n.range)
    /\ ~WrappedInText(n.range)

\* The reports expected of one candidate.
Expected(n) == IF NeedsParens(n) THEN <<n.range>> ELSE <<>>

\* The setting of a context as the options give it.
Given(c) == options # <<>> /\ c \in DOMAIN options[1]
Setting(c) ==
    IF Given(c) THEN options[1][c]
    ELSE c \in {"declaration", "assignment", "return", "arrow"}

RECURSIVE NodesOf(_)
RECURSIVE NodesOfAll(_)
\* The nodes of the tree under n, n included.
NodesOf(n) == IF n = Null THEN {} ELSE {n} \cup NodesOfAll(Children(n))
NodesOfAll(ns) == IF ns = <<>> THEN {} ELSE NodesOf(Head(ns)) \cup NodesOfAll(Tail(ns))

Elements == {n \in NodesOf(sourceCode.ast) : n.type = "JSXElement"}

Handled(handler) == {i \in DOMAIN trace : trace[i].handler = handler}
ReportedRanges == {reports[i].node.range : i \in DOMAIN reports}
Done == pending = <<>>

\* The handled events that reported the node at range.
ReportersOf(range) ==
    {i \in DOMAIN trace : \E k \in DOMAIN trace[i].reported : trace[i].reported[k] = range}

IsConditional(n) == n # Null /\ n.type = "ConditionalExpression"

-----------------------------------------------------------------------------
(* C1 *)

\* A handled declarator whose initializer is a conditional on several lines with no
\* parentheses around it, with `declaration` and `condition` both enabled.
C1_Case(i) ==
    /\ trace[i].handler = "VariableDeclarator"
    /\ IsConditional(trace[i].node.init)
    /\ SpansLines(trace[i].node.init.range)
    /\ ~WrappedInText(trace[i].node.init.range)
    /\ Setting("declaration")
    /\ Setting("condition")

\* C1 as stated: with `declaration` and `condition` enabled, the declarator handler
\* reports the multiline unwrapped conditional initializer, once, as a whole.
C1_FlaggedAsAWhole ==
    \A i \in DOMAIN trace :
        C1_Case(i) => trace[i].reported = <<trace[i].node.init.range>>

\* C1 amended: with `declaration` and `condition` enabled, the declarator handler reports
\* nothing for a multiline unwrapped conditional initializer, no violation has the
\* conditional as its node, and at the end of the traversal each branch that is a
\* multiline unparenthesised element has been reported once, by the conditional handler.
C1_NeverFlaggedAsAWhole ==
    \A i \in DOMAIN trace :
        C1_Case(i) =>
            LET init == trace[i].node.init
            IN  /\ trace[i].reported = <<>>
                /\ init.range \notin ReportedRanges
                /\ Done =>
                     \A b \in {init.consequent, init.alternate} :
                         NeedsParens(b) =>
                             /\ Cardinality(ReportersOf(b.range)) = 1
                             /\ ReportersOf(b.range) \subseteq Handled("ConditionalExpression")

C1_Witness ==
    /\ Done
    /\ \E i \in DOMAIN trace :
          /\ C1_Case(i)
          /\ NeedsParens(trace[i].node.init.consequent)
          /\ trace[i].node.init.consequent.range \in ReportedRanges

-----------------------------------------------------------------------------
(* C2 *)

\* A handled declarator or assignment whose value is a conditional, with its own context
\* enabled and `condition` disabled; Value(i) is that conditional.
Value(i) ==
    IF trace[i].handler = "VariableDeclarator" THEN trace[i].node.init
    ELSE trace[i].node.right

C2_Case(i) ==
    /\ \/ trace[i].handler = "VariableDeclarator" /\ Setting("declaration")
       \/ trace[i].handler = "AssignmentExpression" /\ Setting("assignment")
    /\ IsConditional(Value(i))
    /\ ~Setting("condition")

\* C2: with the enclosing context enabled and `condition` disabled, the handler of a
\* declarator or assignment whose value is a conditional reports exactly the branches that
\* are multiline unparenthesised elements, consequent first, and the conditional itself is
\* never reported.
C2_BranchesNotTheWhole ==
    \A i \in DOMAIN trace :
        C2_Case(i) =>
            /\ trace[i].reported =
                  Expected(Value(i).consequent) \o Expected(Value(i).alternate)
            /\ Value(i).range \notin ReportedRanges

C2_Witness ==
    \E i \in DOMAIN trace :
        /\ C2_Case(i)
        /\ NeedsParens(Value(i).alternate)
        /\ Value(i).consequent.type = "JSXElement"
        /\ ~SpansLines(Value(i).consequent.range)
        /\ trace[i].reported = <<Value(i).alternate.range>>

-----------------------------------------------------------------------------
(* C3 *)

\* C3: in one traversal no node is reported twice, under any of the 2^7 configurations.
C3_ReportedAtMostOnce ==
    \A i, j \in DOMAIN reports :
        i # j => reports[i].node # reports[j].node

\* An element under a conditional that an enabled assignment handler and the enabled
\* conditional handler have both seen, reported at the end of the traversal.
C3_Witness ==
    /\ Done
    /\ Setting("assignment")
    /\ Setting("condition")
    /\ \E i \in Handled("AssignmentExpression") :
          /\ IsConditional(trace[i].node.right)
          /\ NeedsParens(trace[i].node.right.consequent)
          /\ NeedsParens(trace[i].node.right.alternate)
          /\ {trace[i].node.right.consequent.range, trace[i].node.right.alternate.range}
                \subseteq ReportedRanges
          /\ Handled("ConditionalExpression") # {}

-----------------------------------------------------------------------------
(* C4 *)

\* C4: a node a fix has wrapped is, in the new text and at its new position, an element
\* with parentheses around it; check reports nothing for it and no handler of the new
\* pass has reported it, so no second fix is offered for it.
C4_FixIsIdempotent ==
    \A f \in fixed :
        /\ WrappedInText(f)
        /\ f \notin ReportedRanges
        /\ \E n \in Elements : n.range = f /\ check(n) = <<>>

\* After a fix, the return handler has evaluated the node the fix wrapped and the pass
\* has ended with nothing to fix.
C4_Witness ==
    /\ Done
    /\ reports = <<>>
    /\ Setting("return")
    /\ \E i \in Handled("ReturnStatement") :
          /\ trace[i].node.argument # Null
          /\ trace[i].node.argument.range \in fixed
          /\ SpansLines(trace[i].node.argument.range)

-----------------------------------------------------------------------------
(* C5 *)

\* C5: check reports a multiline element unless the nearest character before it that is
\* no blank is "(" and the nearest after it is ")"; an element with one of the two, or at
\* an end of the text, is reported.  Every node a handler has reported is such an element.
C5_FlaggedUnlessWrapped ==
    /\ \A n \in Elements :
          SpansLines(n.range) =>
              ((check(n) = <<>>) <=> (OpensBefore(n.range) /\ ClosesAfter(n.range)))
    /\ \A r \in ReportedRanges : ~(OpensBefore(r) /\ ClosesAfter(r))

\* A handler has reported an element that has ")" after it but no "(" before it.
C5_Witness ==
    \E r \in ReportedRanges : ClosesAfter(r) /\ ~OpensBefore(r)

-----------------------------------------------------------------------------
(* C6 *)

\* C6: no handler reports an element that starts and ends on the same line, and check
\* reports none, with or without parentheses around it.
C6_SingleLineNeverReported ==
    /\ \A r \in ReportedRanges : SpansLines(r)
    /\ \A n \in Elements : ~SpansLines(n.range) => check(n) = <<>>

\* The enabled return handler has evaluated a single-line element with no parentheses.
C6_Witness ==
    /\ Setting("return")
    /\ \E i \in Handled("ReturnStatement") :
          /\ trace[i].node.argument # Null
          /\ trace[i].node.argument.type = "JSXElement"
          /\ ~SpansLines(trace[i].node.argument.range)
          /\ ~WrappedInText(trace[i].node.argument.range)
          /\ trace[i].reported = <<>>

-----------------------------------------------------------------------------
(* C7 *)

ContextOf(handler) ==
    CASE handler = "VariableDeclarator" -> "declaration"
      [] handler = "AssignmentExpression" -> "assignment"
      [] handler = "ReturnStatement" -> "return"
      [] handler = "ArrowFunctionExpression:exit" -> "arrow"
      [] handler = "ConditionalExpression" -> "condition"
      [] handler = "LogicalExpression" -> "logical"
      [] handler = "JSXAttribute" -> "prop"

\* The one node a handled event has to evaluate when its context is enabled and the node
\* is an element (Null when the event has no such node).
Candidate(i) ==
    LET n == trace[i].node
        c == CASE n.type = "VariableDeclarator" -> n.init
               [] n.type = "AssignmentExpression" -> n.right
               [] n.type = "ReturnStatement" -> n.argument
               [] n.type = "ArrowFunctionExpression" -> n.body
               [] n.type = "LogicalExpression" -> n.right
               [] n.type = "JSXAttribute" ->
                    IF n.value # Null /\ n.value.type = "JSXExpressionContainer"
                    THEN n.value.expression ELSE Null
               [] OTHER -> Null
    IN  IF c # Null /\ c.type = "JSXElement" THEN c ELSE Null

\* C7: isEnabled(c) is the options' own entry for c when there is one, false included,
\* and the default otherwise; a handler whose context is off reports nothing, and a
\* handler whose context is on reports its multiline unparenthesised element.
C7_OptionElseDefault ==
    /\ \A c \in Contexts : isEnabled(c) = Setting(c)
    /\ \A i \in DOMAIN trace :
          /\ ~Setting(ContextOf(trace[i].handler)) => trace[i].reported = <<>>
          /\ Setting(ContextOf(trace[i].handler)) /\ Candidate(i) # Null =>
                trace[i].reported = Expected(Candidate(i))

\* Options {declaration: false, logical: true}: the declarator's multiline element is not
\* reported and the right operand of the logical expression in it is.
C7_Witness ==
    /\ Done
    /\ options = <<[declaration |-> FALSE, logical |-> TRUE]>>
    /\ \E i \in Handled("VariableDeclarator"), j \in Handled("LogicalExpression") :
          /\ NeedsParens(trace[i].node.init)
          /\ trace[i].reported = <<>>
          /\ NeedsParens(trace[j].node.right)
          /\ trace[j].reported = <<trace[j].node.right.range>>

-----------------------------------------------------------------------------
(* C8 *)

Count(range) == Cardinality({i \in DOMAIN reports : reports[i].node.range = range})

\* C8: with `arrow` enabled the arrow handler reports an expression body that is a
\* multiline unparenthesised element, and the traversal reports it once; for a block body
\* the arrow handler reports nothing whatever `arrow` is, and the element a return in the
\* block returns is reported by the return handler alone, and only with `return` enabled.
C8_ArrowBodyOrReturn ==
    \A i \in Handled("ArrowFunctionExpression:exit") :
        LET body == trace[i].node.body
        IN  IF body.type # "BlockStatement"
            THEN Setting("arrow") /\ NeedsParens(body) =>
                    /\ trace[i].reported = <<body.range>>
                    /\ Count(body.range) = 1
            ELSE /\ trace[i].reported = <<>>
                 /\ LET arg == body.body[1].argument
                    IN  arg # Null =>
                           /\ ReportersOf(arg.range) \subseteq Handled("ReturnStatement")
                           /\ arg.range \in ReportedRanges
                                 <=> (Setting("return") /\ NeedsParens(arg))

C8_Witness ==
    /\ Done
    /\ \E i \in Handled("ArrowFunctionExpression:exit") :
          /\ trace[i].node.body.type # "BlockStatement"
          /\ NeedsParens(trace[i].node.body)
          /\ trace[i].reported = <<trace[i].node.body.range>>
          /\ Len(reports) = 1

-----------------------------------------------------------------------------
(* C9 *)

\* C9: the fix of a report replaces the range of the reported node by "(", the node's
\* text as it is, and ")"; the text after a fix is the text before it with "(" put before
\* the node and ")" after it and everything else as it was.
C9_FixAddsTwoCharacters ==
    /\ \A i \in DOMAIN reports :
          /\ reports[i].fix.range = reports[i].node.range
          /\ reports[i].fix.text =
                <<"(">> \o SubSeq(sourceCode.text, reports[i].node.range[1] + 1,
                                  reports[i].node.range[2]) \o <<")">>
    /\ lastFix # Null =>
          LET old == lastFix.text
              new == sourceCode.text
              s == lastFix.node[1]
              e == lastFix.node[2]
          IN  /\ Len(new) = Len(old) + 2
              /\ SubSeq(new, 1, s) = SubSeq(old, 1, s)
              /\ new[s + 1] = "("
              /\ SubSeq(new, s + 2, e + 1) = SubSeq(old, s + 1, e)
              /\ new[e + 2] = ")"
              /\ SubSeq(new, e + 3, Len(new)) = SubSeq(old, e + 1, Len(old))

\* A fix has been applied to a node with text before it and after it.
C9_Witness ==
    /\ lastFix # Null
    /\ lastFix.node[1] > 0
    /\ lastFix.node[2] < Len(lastFix.text)

-----------------------------------------------------------------------------
(* C10 *)

\* C10: for an attribute whose value is an expression container, the attribute handler
\* reports, with `prop` enabled, the expression in it when that is a multiline
\* unparenthesised element, and nothing with `prop` disabled; for an attribute with no
\* value or another value it reports nothing; it never reports the container or the
\* attribute.
C10_PropInnerExpression ==
    \A i \in Handled("JSXAttribute") :
        LET value == trace[i].node.value
        IN  /\ IF value # Null /\ value.type = "JSXExpressionContainer" /\ Setting("prop")
               THEN trace[i].reported = Expected(value.expression)
               ELSE trace[i].reported = <<>>
            /\ trace[i].node.range \notin ReportedRanges
            /\ value # Null => value.range \notin ReportedRanges

C10_Witness ==
    \E i \in Handled("JSXAttribute") :
        /\ Setting("prop")
        /\ trace[i].node.value # Null
        /\ trace[i].node.value.type = "JSXExpressionContainer"
        /\ NeedsParens(trace[i].node.value.expression)
        /\ trace[i].reported = <<trace[i].node.value.expression.range>>

====
